---- MODULE Spec2Model ----
(***************************************************************************)
(* Phased-array focusing simulation of dwhswenson/ultrasound.              *)
(*                                                                         *)
(* JavaScript numbers are modelled as exact rationals <<n, d>> (d > 0, in  *)
(* lowest terms); Math.sqrt is modelled as the square root rounded down to *)
(* a multiple of 1/SqrtScale.  The canvas is modelled by the list of the   *)
(* shapes a draw call emits.                                               *)
(***************************************************************************)
EXTENDS Integers, Sequences, FiniteSets, TLC

VARIABLES
    speedOfSoundInput,  \* value of the #speedOfSound input: <<>> (empty) or <<n>>
    delayCall,          \* last call of calculatePointTargetDelays and its result
    validation,         \* last call of validateTargetPoint and its result
    element,            \* the ArrayElement under draw
    canvasOps,          \* last call of ArrayElement.draw and what it drew
    builderCall,        \* last call of createElementArray and its result
    amplitudeCall,      \* last call of calculateWaveAmplitudeAtTarget and its result
    numElementsInput,   \* value of the #numElements input
    pitchInput,         \* value of the #pitch input
    targetXInput,       \* value of the #targetX input: <<>> (empty) or <<n>>
    targetYInput,       \* value of the #targetY input: <<>> (empty) or <<n>>
    movieDurationInput, \* value of the #movieDuration input
    rect,               \* canvas.getBoundingClientRect()
    clickEvent,         \* the last click event on the canvas, if any
    canvasFrame,        \* what the canvas shows
    initialFrames,      \* initial-frame bitmaps whose creation is awaited
    frames,             \* the frame buffer
    currentFrame,       \* index of the frame being shown
    isPlaying,          \* playback is running
    playInterval,       \* id of the playback interval timer, or Null
    timers,             \* ids of the interval timers that are scheduled
    generations,        \* the generateMovie calls awaiting a bitmap
    generated,          \* what the last generateMovie call left when it returned
    events              \* number of user events handled so far

callVars == <<builderCall, amplitudeCall>>

uiVars ==
    <<numElementsInput, pitchInput, targetXInput, targetYInput,
      movieDurationInput, rect, clickEvent, canvasFrame, initialFrames>>

movieVars ==
    <<frames, currentFrame, isPlaying, playInterval, timers, generations, generated>>

vars ==
    <<speedOfSoundInput, delayCall, validation, element, canvasOps,
      callVars, uiVars, movieVars, events>>

(***************************************************************************)
(* Bounds of the model.                                                    *)
(***************************************************************************)
MaxElements == 3    \* longest position list handed to the delay calculator
SqrtScale == 16     \* Math.sqrt is exact to 1/SqrtScale of a pixel
Slack == 1          \* targets are taken up to Slack px either side of a limit
MaxTick == 8        \* draw times run up to MaxTick quarter seconds
MaxFrames == 4      \* movies last up to MaxFrames frame periods
MaxPending == 2     \* initial frames awaited at once before the next user event
MaxEvents == 4      \* user events in one session with the page

(***************************************************************************)
(* Number arithmetic.                                                      *)
(***************************************************************************)
Abs(n) == IF n < 0 THEN -n ELSE n

\* Euclid's algorithm; the recursion is over pairs of values
GCD(a, b) ==
    LET gcd[p \in Nat \X Nat] == IF p[2] = 0 THEN p[1] ELSE gcd[<<p[2], p[1] % p[2]>>]
    IN  gcd[<<a, b>>]

Sign(n) == IF n > 0 THEN 1 ELSE IF n < 0 THEN -1 ELSE 0

\* The operations below evaluate their operands once, to values, before
\* they compute with them: each is a function applied to the pair of operands.

\* n / d in lowest terms; a zero denominator gives the non-finite numbers
\* <<1, 0>> (Infinity), <<-1, 0>> (-Infinity) and <<0, 0>> (NaN)
Rat(n, d) ==
    LET rat[p \in Int \X Int] ==
            IF p[2] = 0 THEN <<Sign(p[1]), 0>>
            ELSE LET s == IF p[2] < 0 THEN -1 ELSE 1
                     g == GCD(Abs(p[1]), Abs(p[2]))
                 IN  <<(s * p[1]) \div g, (s * p[2]) \div g>>
    IN  rat[<<n, d>>]

\* a number: a fraction in lowest terms or one of the non-finite numbers
Number == Int \X Int

Num(i) == <<i, 1>>

NaN == <<0, 0>>

IsNaN(a) == a = NaN

IsFinite(a) == a[2] # 0

Neg(a) == LET neg[x \in Number] == <<-x[1], x[2]>> IN neg[a]

Add(a, b) ==
    LET add[p \in Number \X Number] ==
            IF p[1][2] = 0 /\ p[2][2] = 0
            THEN (IF p[1] = p[2] THEN p[1] ELSE NaN)
            ELSE Rat(p[1][1] * p[2][2] + p[2][1] * p[1][2], p[1][2] * p[2][2])
    IN  add[<<a, b>>]

Sub(a, b) == Add(a, Neg(b))

Mul(a, b) ==
    LET mul[p \in Number \X Number] == Rat(p[1][1] * p[2][1], p[1][2] * p[2][2])
    IN  mul[<<a, b>>]

\* 1 / b
Recip(b) ==
    LET recip[x \in Number] ==
            IF IsNaN(x) THEN NaN
            ELSE IF x[2] = 0 THEN <<0, 1>>
            ELSE Rat(x[2], x[1])
    IN  recip[b]

Div(a, b) == Mul(a, Recip(b))

\* a < b; false when either side is NaN
Lt(a, b) ==
    LET lt[p \in Number \X Number] ==
            /\ ~IsNaN(p[1])
            /\ ~IsNaN(p[2])
            /\ IF p[1][2] = 0 /\ p[2][2] = 0 THEN p[1][1] < p[2][1]
               ELSE p[1][1] * p[2][2] < p[2][1] * p[1][2]
    IN  lt[<<a, b>>]

\* a <= b; false when either side is NaN
Le(a, b) ==
    LET le[p \in Number \X Number] ==
            /\ ~IsNaN(p[1])
            /\ ~IsNaN(p[2])
            /\ IF p[1][2] = 0 /\ p[2][2] = 0 THEN p[1][1] <= p[2][1]
               ELSE p[1][1] * p[2][2] <= p[2][1] * p[1][2]
    IN  le[<<a, b>>]

Zero == Num(0)

\* binary search of the largest r in lo..hi with r * r <= n; the recursion is
\* over pairs of values
SqrtSearch(n, lo, hi) ==
    LET search[p \in Nat \X Nat] ==
            IF p[1] = p[2] THEN p[1]
            ELSE LET mid == (p[1] + p[2] + 1) \div 2
                 IN  IF mid * mid <= n THEN search[<<mid, p[2]>>]
                     ELSE search[<<p[1], mid - 1>>]
    IN  search[<<lo, hi>>]

\* floor(sqrt(n)) for 0 <= n < 2^30
ISqrt(n) == SqrtSearch(n, 0, 32767)

\* Math.sqrt of an integer, to 1/SqrtScale
Sqrt(n) == Rat(ISqrt(n * SqrtScale * SqrtScale), SqrtScale)

\* Math.sqrt of a finite number a >= 0
SqrtRat(a) ==
    LET sqrt[x \in Number] ==
            Rat(ISqrt((x[1] * SqrtScale * SqrtScale) \div x[2]), SqrtScale)
    IN  sqrt[a]

\* Math.ceil of a finite number, as an integer
Ceil(a) == -((-a[1]) \div a[2])

\* Math.round of a finite number, as an integer: halves round up
Round(a) == (2 * a[1] + a[2]) \div (2 * a[2])

\* Math.max(...s) for a non-empty list s
MaxOf(s) ==
    LET max[t \in Seq(Number)] ==
            IF Len(t) = 1 THEN t[1]
            ELSE LET m[rest \in Number] == IF Lt(t[1], rest) THEN rest ELSE t[1]
                 IN  m[max[Tail(t)]]
    IN  max[s]

(***************************************************************************)
(* Speed of sound: read from the UI input on every use.                    *)
(***************************************************************************)
FallbackSpeed == 150

getSpeedOfSound ==
    IF speedOfSoundInput # <<>> THEN Num(speedOfSoundInput[1])
    ELSE Num(FallbackSpeed)

(***************************************************************************)
(* Delay calculator (point mode).                                          *)
(***************************************************************************)
Distance(pos, targetX, targetY) ==
    Sqrt((targetX - pos.x) * (targetX - pos.x)
         + (targetY - pos.y) * (targetY - pos.y))

Distances(elementPositions, targetX, targetY) ==
    [i \in 1..Len(elementPositions) |->
        Distance(elementPositions[i], targetX, targetY)]

RECURSIVE MinOf(_)
MinOf(s) ==
    IF Len(s) = 1 THEN s[1]
    ELSE LET m == MinOf(Tail(s)) IN IF Lt(m, s[1]) THEN m ELSE s[1]

\* Variant: divides by the element's fixed visual speed, not the input speed.
calculatePointTargetDelays_FixedSpeed(elementPositions, targetX, targetY) ==
    LET distances == Distances(elementPositions, targetX, targetY)
        maxDistance == MaxOf(distances)
    IN  [i \in 1..Len(distances) |->
            Div(Sub(maxDistance, distances[i]), Num(200))]

\* Variant: takes the nearest element as the reference.
calculatePointTargetDelays_MinReference(elementPositions, targetX, targetY) ==
    LET visualSpeed == getSpeedOfSound
        distances == Distances(elementPositions, targetX, targetY)
        minDist == MinOf(distances)
    IN  [i \in 1..Len(distances) |->
            Div(Sub(minDist, distances[i]), visualSpeed)]

\* Variant: the subtraction is the other way round about the nearest element.
calculatePointTargetDelays_NearestFirst(elementPositions, targetX, targetY) ==
    LET visualSpeed == getSpeedOfSound
        distances == Distances(elementPositions, targetX, targetY)
        minDist == MinOf(distances)
    IN  [i \in 1..Len(distances) |->
            Div(Sub(distances[i], minDist), visualSpeed)]

calculatePointTargetDelays(elementPositions, targetX, targetY) ==
    LET visualSpeed == getSpeedOfSound
        distances == Distances(elementPositions, targetX, targetY)
        maxDistance == MaxOf(distances)
    IN  [i \in 1..Len(distances) |->
            Div(Sub(maxDistance, distances[i]), visualSpeed)]

NoDelayCall ==
    [called |-> FALSE, elementPositions |-> <<>>, targetX |-> 0, targetY |-> 0,
     speed |-> Zero, delays |-> <<>>]

\* calculatePointTargetDelays(elementPositions, targetX, targetY) is called
CalculatePointTargetDelays(elementPositions, targetX, targetY) ==
    /\ delayCall' =
          [called |-> TRUE, elementPositions |-> elementPositions,
           targetX |-> targetX, targetY |-> targetY,
           speed |-> getSpeedOfSound,
           delays |-> calculatePointTargetDelays(elementPositions, targetX, targetY)]
    /\ UNCHANGED <<speedOfSoundInput, validation, element, canvasOps,
                     callVars, uiVars, movieVars>>

(***************************************************************************)
(* Target validator.                                                       *)
(***************************************************************************)
margin == 50

minDistance == 100

EdgeMessage == "Target must be at least 50px from canvas edges"

StandoffMessage == "Target must be at least 100px from array elements"

BehindMessage == "Target must be in front of (to the right of) array elements"

\* Variant: a target exactly on the margin is rejected.
validateTargetPoint_StrictMargin(targetX, targetY, canvasWidth, canvasHeight, elementX) ==
    IF \/ targetX <= margin
       \/ targetX >= canvasWidth - margin
       \/ targetY <= margin
       \/ targetY >= canvasHeight - margin
    THEN [isValid |-> FALSE, errorMessage |-> EdgeMessage]
    ELSE IF Abs(targetX - elementX) < minDistance
         THEN [isValid |-> FALSE, errorMessage |-> StandoffMessage]
         ELSE IF targetX < elementX
              THEN [isValid |-> FALSE, errorMessage |-> BehindMessage]
              ELSE [isValid |-> TRUE]

\* Variant: the forward half-space is checked before the edges and the standoff.
validateTargetPoint_BehindFirst(targetX, targetY, canvasWidth, canvasHeight, elementX) ==
    IF targetX < elementX
    THEN [isValid |-> FALSE, errorMessage |-> BehindMessage]
    ELSE IF \/ targetX < margin
            \/ targetX > canvasWidth - margin
            \/ targetY < margin
            \/ targetY > canvasHeight - margin
         THEN [isValid |-> FALSE, errorMessage |-> EdgeMessage]
         ELSE IF Abs(targetX - elementX) < minDistance
              THEN [isValid |-> FALSE, errorMessage |-> StandoffMessage]
              ELSE [isValid |-> TRUE]

\* Variant: a target at exactly minDistance from the array is rejected.
validateTargetPoint_StrictStandoff(targetX, targetY, canvasWidth, canvasHeight, elementX) ==
    IF \/ targetX < margin
       \/ targetX > canvasWidth - margin
       \/ targetY < margin
       \/ targetY > canvasHeight - margin
    THEN [isValid |-> FALSE, errorMessage |-> EdgeMessage]
    ELSE IF Abs(targetX - elementX) <= minDistance
         THEN [isValid |-> FALSE, errorMessage |-> StandoffMessage]
         ELSE IF targetX < elementX
              THEN [isValid |-> FALSE, errorMessage |-> BehindMessage]
              ELSE [isValid |-> TRUE]

validateTargetPoint(targetX, targetY, canvasWidth, canvasHeight, elementX) ==
    IF \/ targetX < margin
       \/ targetX > canvasWidth - margin
       \/ targetY < margin
       \/ targetY > canvasHeight - margin
    THEN [isValid |-> FALSE, errorMessage |-> EdgeMessage]
    ELSE LET distanceFromArray == Abs(targetX - elementX)
         IN  IF distanceFromArray < minDistance
             THEN [isValid |-> FALSE, errorMessage |-> StandoffMessage]
             ELSE IF targetX < elementX
                  THEN [isValid |-> FALSE, errorMessage |-> BehindMessage]
                  ELSE [isValid |-> TRUE]

\* canvas.width * 0.4 (widths are multiples of 5 in this model)
ElementXOf(canvasWidth) == (canvasWidth * 2) \div 5

NoValidation ==
    [called |-> FALSE, targetX |-> 0, targetY |-> 0, canvasWidth |-> 0,
     canvasHeight |-> 0, elementX |-> 0, result |-> [isValid |-> FALSE]]

\* validateTargetPoint(targetX, targetY, canvas.width, canvas.height, elementX) is called
ValidateTargetPoint(targetX, targetY, canvasWidth, canvasHeight) ==
    LET elementX == ElementXOf(canvasWidth)
    IN  /\ validation' =
              [called |-> TRUE, targetX |-> targetX, targetY |-> targetY,
               canvasWidth |-> canvasWidth, canvasHeight |-> canvasHeight,
               elementX |-> elementX,
               result |-> validateTargetPoint(targetX, targetY, canvasWidth,
                                              canvasHeight, elementX)]
        /\ UNCHANGED <<speedOfSoundInput, delayCall, element, canvasOps,
                     callVars, uiVars, movieVars>>

(***************************************************************************)
(* Array element.                                                          *)
(***************************************************************************)
VISUAL_SPEED_PX_PER_SEC == 200

\* new ArrayElement(x, y, delay, radius, lineLength)
ArrayElement(x, y, delay, radius, lineLength) ==
    [x |-> x, y |-> y, delay |-> delay, radius |-> radius,
     lineLength |-> lineLength]

\* ctx.arc(x, y, radius, from, to); the angles are in quarter turns
Arc(x, y, radius, from, to) ==
    [x |-> x, y |-> y, radius |-> radius, from |-> from, to |-> to]

\* Variant: the wavefront is also drawn at radius 0, at the instant of firing.
draw_WaveAtFiring(self, t, speed) ==
    LET visualSpeedPx == Num(VISUAL_SPEED_PX_PER_SEC)
        xStart == self.x - self.lineLength
        circle == Arc(Num(self.x), self.y, Num(self.radius), 0, 4)
        line == [x1 |-> xStart, x2 |-> self.x - self.radius, y |-> self.y]
        startTime == Sub(self.delay,
                         Div(Num(self.lineLength - self.radius), visualSpeedPx))
        pulseX == Add(Num(xStart), Mul(visualSpeedPx, Sub(t, startTime)))
    IN  IF Lt(t, self.delay)
        THEN [circle |-> circle, line |-> line,
              pulse |-> IF /\ Le(startTime, t)
                           /\ Le(Num(xStart), pulseX)
                           /\ Le(pulseX, Num(self.x - self.radius))
                        THEN <<Arc(pulseX, self.y, Rat(self.radius, 2), 0, 4)>>
                        ELSE <<>>,
              wave |-> <<>>]
        ELSE [circle |-> circle, line |-> line,
              pulse |-> <<>>,
              wave |-> <<Arc(Num(self.x), self.y,
                             Mul(visualSpeedPx, Sub(t, self.delay)), -1, 1)>>]

\* element.draw(ctx, t, speed): the shapes drawn.  The method takes (ctx, t);
\* the third argument its caller passes is not read.
draw(self, t, speed) ==
    LET visualSpeedPx == Num(VISUAL_SPEED_PX_PER_SEC)
        xStart == self.x - self.lineLength
        circle == Arc(Num(self.x), self.y, Num(self.radius), 0, 4)
        line == [x1 |-> xStart, x2 |-> self.x - self.radius, y |-> self.y]
    IN  IF Lt(t, self.delay)
        THEN LET travelDistance == self.lineLength - self.radius
                 travelTime == Div(Num(travelDistance), visualSpeedPx)
                 startTime == Sub(self.delay, travelTime)
                 timeSinceStart == Sub(t, startTime)
                 pulseX == Add(Num(xStart), Mul(visualSpeedPx, timeSinceStart))
             IN  [circle |-> circle, line |-> line,
                  pulse |-> IF /\ Le(startTime, t)
                               /\ Le(Num(xStart), pulseX)
                               /\ Le(pulseX, Num(self.x - self.radius))
                            THEN <<Arc(pulseX, self.y, Rat(self.radius, 2), 0, 4)>>
                            ELSE <<>>,
                  wave |-> <<>>]
        ELSE LET timeSinceEmission == Sub(t, self.delay)
                 waveRadius == Mul(visualSpeedPx, timeSinceEmission)
             IN  [circle |-> circle, line |-> line,
                  pulse |-> <<>>,
                  wave |-> IF Lt(Zero, waveRadius)
                           THEN <<Arc(Num(self.x), self.y, waveRadius, -1, 1)>>
                           ELSE <<>>]

NoDraw ==
    [called |-> FALSE, t |-> Zero, speed |-> Zero,
     ops |-> [circle |-> Arc(Zero, 0, Zero, 0, 4),
              line |-> [x1 |-> 0, x2 |-> 0, y |-> 0],
              pulse |-> <<>>, wave |-> <<>>]]

\* Variant: drawing uses up the delay of the element.
DrawElementsAtTime_Consuming(time) ==
    LET speed == getSpeedOfSound
    IN  /\ canvasOps' = [called |-> TRUE, t |-> time, speed |-> speed,
                         ops |-> draw(element, time, speed)]
        /\ element' = [element EXCEPT !.delay = Sub(element.delay, time)]
        /\ UNCHANGED <<speedOfSoundInput, delayCall, validation,
                       callVars, uiVars, movieVars>>

\* drawElementsAtTime(ctx, [element], time)
DrawElementsAtTime(time) ==
    LET speed == getSpeedOfSound
    IN  /\ canvasOps' = [called |-> TRUE, t |-> time, speed |-> speed,
                         ops |-> draw(element, time, speed)]
        /\ UNCHANGED <<speedOfSoundInput, delayCall, validation, element,
                     callVars, uiVars, movieVars>>

(***************************************************************************)
(* Linear targeting: one delay for every element.                          *)
(***************************************************************************)
DEFAULT_ELEMENT_RADIUS == 10

DEFAULT_LINE_LENGTH == 200

\* linearDelay = (lineLength - radius) / visualSpeed
linearDelay(visualSpeed) ==
    Div(Num(DEFAULT_LINE_LENGTH - DEFAULT_ELEMENT_RADIUS), visualSpeed)

(***************************************************************************)
(* The element array builder.  numElements and pitch are numbers (not      *)
(* necessarily integers); delays is a number or an array of numbers,       *)
(* [isArray |-> FALSE, items |-> <<d>>] or [isArray |-> TRUE, items |-> ds]. *)
(***************************************************************************)
\* the value of delays[i] for an index past the end of the array
Undefined == <<>>

ScalarDelay(d) == [isArray |-> FALSE, items |-> <<d>>]

DelayArray(ds) == [isArray |-> TRUE, items |-> ds]

\* new ArrayElement(x, y, delay): radius and lineLength take their defaults
NewArrayElement(x, y, delay) == ArrayElement(x, y, delay, 10, 200)

\* Array.isArray(delays) ? delays[i] : delays        (i counts from 0)
ElementDelayAt(delays, i) ==
    IF delays.isArray
    THEN IF i + 1 \in DOMAIN delays.items THEN delays.items[i + 1] ELSE Undefined
    ELSE delays.items[1]

\* the body of the loop: for (let i = 0; i < numElements; i++) { push }
RECURSIVE ElementLoop(_, _, _, _, _, _, _)
ElementLoop(i, elements, numElements, pitch, delays, startY, elementX) ==
    IF Lt(Num(i), numElements)
    THEN ElementLoop(i + 1,
                     Append(elements,
                            NewArrayElement(elementX,
                                            Add(startY, Mul(Num(i), pitch)),
                                            ElementDelayAt(delays, i))),
                     numElements, pitch, delays, startY, elementX)
    ELSE elements

\* Variant: the loop runs over the integer part of numElements only.
createElementArray_Truncating(numElements, pitch, delays, canvasElement) ==
    LET totalHeight == Mul(Sub(numElements, Num(1)), pitch)
        startY == Div(Sub(Num(canvasElement.height), totalHeight), Num(2))
        elementX == Mul(Num(canvasElement.width), Rat(2, 5))
    IN  ElementLoop(0, <<>>, Num(numElements[1] \div numElements[2]),
                    pitch, delays, startY, elementX)

\* Variant: the array starts at the top of the canvas instead of centred.
createElementArray_TopAligned(numElements, pitch, delays, canvasElement) ==
    LET elementX == Mul(Num(canvasElement.width), Rat(2, 5))
    IN  ElementLoop(0, <<>>, numElements, pitch, delays, Zero, elementX)

\* Variant: a delay vector shorter than the array is padded with its last value.
createElementArray_Padding(numElements, pitch, delays, canvasElement) ==
    LET totalHeight == Mul(Sub(numElements, Num(1)), pitch)
        startY == Div(Sub(Num(canvasElement.height), totalHeight), Num(2))
        elementX == Mul(Num(canvasElement.width), Rat(2, 5))
        padded == IF delays.isArray /\ delays.items # <<>>
                  THEN DelayArray([k \in 1..(Len(delays.items) + numElements[1] + 1) |->
                                      IF k <= Len(delays.items)
                                      THEN delays.items[k]
                                      ELSE delays.items[Len(delays.items)]])
                  ELSE delays
    IN  ElementLoop(0, <<>>, numElements, pitch, padded, startY, elementX)

\* createElementArray(numElements, pitch, delays, canvasElement)
createElementArray(numElements, pitch, delays, canvasElement) ==
    LET totalHeight == Mul(Sub(numElements, Num(1)), pitch)
        startY == Div(Sub(Num(canvasElement.height), totalHeight), Num(2))
        elementX == Mul(Num(canvasElement.width), Rat(2, 5))
    IN  ElementLoop(0, <<>>, numElements, pitch, delays, startY, elementX)

NoBuilderCall ==
    [called |-> FALSE, numElements |-> Zero, pitch |-> Zero,
     delays |-> ScalarDelay(Zero), canvas |-> [width |-> 0, height |-> 0],
     elements |-> <<>>]

\* a call of createElementArray, with its arguments and its result
CreateElementArray(numElements, pitch, delays, canvasElement) ==
    /\ builderCall' = [called |-> TRUE, numElements |-> numElements,
                       pitch |-> pitch, delays |-> delays,
                       canvas |-> canvasElement,
                       elements |-> createElementArray(numElements, pitch,
                                                       delays, canvasElement)]
    /\ UNCHANGED <<speedOfSoundInput, delayCall, validation, element, canvasOps,
                   amplitudeCall, uiVars, movieVars>>

(***************************************************************************)
(* The interference evaluator.  Math.sin is modelled on the phase counted  *)
(* in turns (phase / 2 pi), by Bhaskara's rational approximation: it is    *)
(* exact at the quarter turns, stays within [-1, 1], and is -1 only at     *)
(* three quarters of a turn, which is what the properties below rest on.   *)
(***************************************************************************)
VisualizationFrequency == 5

\* the fractional part of a finite number a >= 0
Frac(a) == Rat(a[1] % a[2], a[2])

\* sin(pi * x) for 0 <= x <= 1, x = n/d
SinHalfTurn(n, d) == Rat(16 * n * (d - n), 5 * d * d - 4 * n * (d - n))

\* Math.sin(2 pi u) for 0 <= u < 1
SinTurns(u) ==
    IF 2 * u[1] <= u[2]
    THEN SinHalfTurn(2 * u[1], u[2])
    ELSE Neg(SinHalfTurn(2 * u[1] - u[2], u[2]))

\* the part of the forEach callback before the accumulation: has the wave of
\* this element reached the target at currentTime
Arrived(self, targetX, targetY, currentTime, visualSpeed) ==
    /\ ~Lt(currentTime, self.delay)
    /\ Le(Div(Distance(self, targetX, targetY), visualSpeed),
          Sub(currentTime, self.delay))

\* (timeSinceFiring - travelTime) * frequency: the phase of an arrived wave, in turns
PhaseTurns(self, targetX, targetY, currentTime, visualSpeed) ==
    Mul(Sub(Sub(currentTime, self.delay),
            Div(Distance(self, targetX, targetY), visualSpeed)),
        Num(VisualizationFrequency))

\* amplitude = Math.sin(phase) * 0.5 + 0.5
WaveAmplitude(self, targetX, targetY, currentTime, visualSpeed) ==
    Add(Mul(SinTurns(Frac(PhaseTurns(self, targetX, targetY, currentTime,
                                     visualSpeed))),
            Rat(1, 2)),
        Rat(1, 2))

\* elements.forEach(...): <<totalAmplitude, waveCount>> after the elements from i on
RECURSIVE Accumulate(_, _, _, _, _, _, _, _)
Accumulate(elements, i, totalAmplitude, waveCount, targetX, targetY, currentTime, visualSpeed) ==
    IF i > Len(elements)
    THEN <<totalAmplitude, waveCount>>
    ELSE IF Arrived(elements[i], targetX, targetY, currentTime, visualSpeed)
         THEN Accumulate(elements, i + 1,
                         Add(totalAmplitude,
                             WaveAmplitude(elements[i], targetX, targetY,
                                           currentTime, visualSpeed)),
                         waveCount + 1, targetX, targetY, currentTime, visualSpeed)
         ELSE Accumulate(elements, i + 1, totalAmplitude, waveCount,
                         targetX, targetY, currentTime, visualSpeed)

\* Variant: the sum is averaged over all the elements, arrived or not.
calculateWaveAmplitudeAtTarget_AllElements(elements, targetX, targetY, currentTime) ==
    LET acc == Accumulate(elements, 1, Zero, 0, targetX, targetY, currentTime,
                          getSpeedOfSound)
    IN  IF acc[2] > 0 THEN Div(acc[1], Num(Len(elements))) ELSE Zero

\* Variant: the sum of the contributions is returned without averaging.
calculateWaveAmplitudeAtTarget_Sum(elements, targetX, targetY, currentTime) ==
    LET acc == Accumulate(elements, 1, Zero, 0, targetX, targetY, currentTime,
                          getSpeedOfSound)
    IN  IF acc[2] > 0 THEN acc[1] ELSE Zero

\* calculateWaveAmplitudeAtTarget(elements, targetX, targetY, currentTime)
calculateWaveAmplitudeAtTarget(elements, targetX, targetY, currentTime) ==
    LET acc == Accumulate(elements, 1, Zero, 0, targetX, targetY, currentTime,
                          getSpeedOfSound)
    IN  IF acc[2] > 0 THEN Div(acc[1], Num(acc[2])) ELSE Zero

NoAmplitudeCall ==
    [called |-> FALSE, elements |-> <<>>, targetX |-> 0, targetY |-> 0,
     currentTime |-> Zero, amplitude |-> Zero]

\* a call of calculateWaveAmplitudeAtTarget, with its arguments and its result
CalculateWaveAmplitudeAtTarget(elements, targetX, targetY, currentTime) ==
    /\ amplitudeCall' =
           [called |-> TRUE, elements |-> elements, targetX |-> targetX,
            targetY |-> targetY, currentTime |-> currentTime,
            amplitude |-> calculateWaveAmplitudeAtTarget(elements, targetX,
                                                         targetY, currentTime)]
    /\ UNCHANGED <<speedOfSoundInput, delayCall, validation, element, canvasOps,
                   builderCall, uiVars, movieVars>>

(***************************************************************************)
(* The page: the canvas, the inputs, the frame composer, the initial frame. *)
(* A target is <<>> (no target) or <<targetX, targetY>>.  A frame is the    *)
(* record of what the composer was given and drew: the time, the elements,  *)
(* the speed read for drawing and evaluating, the target, whether its       *)
(* cross-hair and the invalid marker were drawn, and how many times the     *)
(* interference evaluator was called.                                       *)
(***************************************************************************)
canvas == [width |-> 640, height |-> 480]

SharedVisualSpeed == 150

APP_FRAME_RATE == 30

Null == 0

NoFrame ==
    [time |-> Zero, elements |-> <<>>, speed |-> Zero, targetType |-> "none",
     target |-> <<>>, targetDrawn |-> FALSE, invalidMarker |-> FALSE,
     evaluations |-> 0]

NoClick == [clicked |-> FALSE, clientX |-> 0, clientY |-> 0]

NotGenerated == [done |-> FALSE, currentFrame |-> 0, totalFrames |-> 0]

\* hasTarget = targetXInput.value && targetYInput.value
hasTarget == targetXInput # <<>> /\ targetYInput # <<>>

TargetOfInputs == IF hasTarget THEN <<targetXInput[1], targetYInput[1]>> ELSE <<>>

TargetTypeOfInputs == IF hasTarget THEN "point" ELSE "linear"

\* validateTargetPoint on the page's canvas
TargetIsValid(target) ==
    validateTargetPoint(target[1], target[2], canvas.width, canvas.height,
                        ElementXOf(canvas.width)).isValid

\* parseFloat(speedOfSoundElement.value) || VISUAL_SPEED_PX_PER_SEC
InitialFrameSpeed ==
    IF speedOfSoundInput # <<>> /\ speedOfSoundInput[1] # 0
    THEN Num(speedOfSoundInput[1])
    ELSE Num(SharedVisualSpeed)

\* for (let i = 0; i < numElements; i++) positions.push({x, y: startY + i * pitch})
RECURSIVE PositionLoop(_, _, _, _, _, _)
PositionLoop(i, positions, numElements, pitch, startY, elementX) ==
    IF Lt(Num(i), numElements)
    THEN PositionLoop(i + 1,
                      Append(positions,
                             [x |-> elementX, y |-> Add(startY, Mul(Num(i), pitch))]),
                      numElements, pitch, startY, elementX)
    ELSE positions

\* Variant: the nearest element fires first.
VisualDelays_NearestFirst(numElements, pitch, target, visualSpeed) ==
    LET totalHeight == Mul(Sub(numElements, Num(1)), pitch)
        startY == Div(Sub(Num(canvas.height), totalHeight), Num(2))
        elementX == Mul(Num(canvas.width), Rat(2, 5))
        visualDelays[distances \in Seq(Number)] ==
            LET delays[nearest \in Number] ==
                    [i \in 1..Len(distances) |->
                        Div(Sub(distances[i], nearest), visualSpeed)]
            IN  delays[MinOf(distances)]
        distancesOf[positions \in Seq([x : Number, y : Number])] ==
            visualDelays[[i \in 1..Len(positions) |->
                            LET dx == Sub(Num(target[1]), positions[i].x)
                                dy == Sub(Num(target[2]), positions[i].y)
                            IN  SqrtRat(Add(Mul(dx, dx), Mul(dy, dy)))]]
    IN  distancesOf[PositionLoop(0, <<>>, numElements, pitch, startY, elementX)]

\* the delays of point targeting, as computed in line by generateMovie and
\* generateAndRenderInitialFrame; positions, distances and maxDistance are
\* computed once each, as the constants of the code are
VisualDelays(numElements, pitch, target, visualSpeed) ==
    LET totalHeight == Mul(Sub(numElements, Num(1)), pitch)
        startY == Div(Sub(Num(canvas.height), totalHeight), Num(2))
        elementX == Mul(Num(canvas.width), Rat(2, 5))
        visualDelays[distances \in Seq(Number)] ==
            LET delays[maxDistance \in Number] ==
                    [i \in 1..Len(distances) |->
                        Div(Sub(maxDistance, distances[i]), visualSpeed)]
            IN  delays[MaxOf(distances)]
        distancesOf[positions \in Seq([x : Number, y : Number])] ==
            visualDelays[[i \in 1..Len(positions) |->
                            LET dx == Sub(Num(target[1]), positions[i].x)
                                dy == Sub(Num(target[2]), positions[i].y)
                            IN  SqrtRat(Add(Mul(dx, dx), Mul(dy, dy)))]]
    IN  distancesOf[PositionLoop(0, <<>>, numElements, pitch, startY, elementX)]

\* createMultiElementFrameWithElements(elements, _, currentTime, targetType,
\* canvas, ctx, targetX, targetY): the frame composed on the canvas
createMultiElementFrameWithElements(elements, currentTime, targetType, target) ==
    LET pointTarget == targetType = "point" /\ target # <<>>
        valid == pointTarget /\ TargetIsValid(target)
    IN  [time |-> currentTime,
         elements |-> elements,
         speed |-> getSpeedOfSound,
         targetType |-> targetType,
         target |-> target,
         targetDrawn |-> pointTarget,
         invalidMarker |-> pointTarget /\ ~valid,
         evaluations |-> IF valid THEN 2 ELSE 0]

\* Variant: point delays are computed for every target, valid or not.
InitialFrameElements_NoFallback(target) ==
    LET numElements == Num(numElementsInput)
        visualSpeed == InitialFrameSpeed
    IN  IF target # <<>>
        THEN createElementArray(
                 numElements, pitchInput,
                 DelayArray(VisualDelays(numElements, pitchInput, target,
                                         visualSpeed)),
                 canvas)
        ELSE createElementArray(numElements, pitchInput,
                                ScalarDelay(linearDelay(visualSpeed)), canvas)

\* the elements generateAndRenderInitialFrame builds when the target inputs
\* hold target
InitialFrameElements(target) ==
    LET numElements == Num(numElementsInput)
        visualSpeed == InitialFrameSpeed
    IN  IF target # <<>> /\ TargetIsValid(target)
        THEN createElementArray(
                 numElements, pitchInput,
                 DelayArray(VisualDelays(numElements, pitchInput, target,
                                         visualSpeed)),
                 canvas)
        ELSE createElementArray(numElements, pitchInput,
                                ScalarDelay(linearDelay(visualSpeed)), canvas)

\* generateAndRenderInitialFrame up to its await: the frame at t = 0
InitialFrame(target) ==
    createMultiElementFrameWithElements(
        InitialFrameElements(target), Zero,
        IF target # <<>> THEN "point" ELSE "linear", target)

\* Math.round(event.clientX - rect.left), Math.round(event.clientY - rect.top)
ClickTarget(event) ==
    <<Round(Sub(Num(event.clientX), rect.left)),
      Round(Sub(Num(event.clientY), rect.top))>>

\* the canvas "click" listener, up to the await of the initial frame
CanvasClick(clientX, clientY) ==
    LET event == [clicked |-> TRUE, clientX |-> clientX, clientY |-> clientY]
        target == ClickTarget(event)
    IN  /\ UNCHANGED <<speedOfSoundInput, delayCall, validation, element, canvasOps,
                       callVars, numElementsInput, pitchInput, movieDurationInput,
                       rect, movieVars>>
        /\ clickEvent' = event
        /\ targetXInput' = <<target[1]>>
        /\ targetYInput' = <<target[2]>>
        /\ canvasFrame' = InitialFrame(target)
        /\ initialFrames' = Append(initialFrames, InitialFrame(target))

\* generateAndRenderInitialFrame after its await: the bitmap is drawn
InitialFrameReady(i) ==
    /\ i \in 1..Len(initialFrames)
    /\ canvasFrame' = initialFrames[i]
    /\ initialFrames' = [k \in 1..(Len(initialFrames) - 1) |->
                            IF k < i THEN initialFrames[k] ELSE initialFrames[k + 1]]
    /\ UNCHANGED <<speedOfSoundInput, delayCall, validation, element, canvasOps,
                   callVars, numElementsInput, pitchInput, targetXInput,
                   targetYInput, movieDurationInput, rect, clickEvent, movieVars>>

(***************************************************************************)
(* Movie generation and playback.  generateMovie runs up to its first      *)
(* await within the click that starts it; each bitmap that becomes ready   *)
(* resumes it for one turn of its loop; when the loop ends the click       *)
(* handler goes on with playMovie in the same turn of the event loop.      *)
(***************************************************************************)
\* totalFrames = Math.ceil(movieDuration * frameRate)
TotalFrames(movieDuration) == Ceil(Mul(movieDuration, Num(APP_FRAME_RATE)))

\* visualCurrentTime = (i / (totalFrames - 1)) * movieDuration
VisualCurrentTime(i, totalFrames, movieDuration) ==
    Mul(Div(Num(i), Num(totalFrames - 1)), movieDuration)

\* the elements generateMovie builds, with the speed read at that time
MovieElements(numElements, pitch, targetType, target) ==
    IF targetType = "point" /\ target # <<>>
    THEN createElementArray(
             numElements, pitch,
             DelayArray(VisualDelays(numElements, pitch, target, getSpeedOfSound)),
             canvas)
    ELSE createElementArray(numElements, pitch,
                            ScalarDelay(linearDelay(getSpeedOfSound)), canvas)

\* an id for a new interval timer
NewTimer == CHOOSE id \in 1..(Cardinality(timers) + 1) : id \notin timers

\* renderFrame(idx) on frame buffer fs: what the canvas shows afterwards.
\* Drawing a frame that does not exist throws after the canvas was cleared.
renderFrame(fs, idx, shown) ==
    IF Len(fs) = 0 THEN shown
    ELSE IF idx + 1 \in DOMAIN fs THEN fs[idx + 1] ELSE NoFrame

\* playMovie() on frame buffer fs at frame cf, the canvas showing shown
playMovie(fs, cf, shown) ==
    IF Len(fs) = 0
    THEN /\ canvasFrame' = shown
         /\ UNCHANGED <<isPlaying, playInterval, timers>>
    ELSE /\ isPlaying' = TRUE
         /\ canvasFrame' = renderFrame(fs, cf, shown)
         /\ playInterval' = NewTimer
         /\ timers' = timers \cup {NewTimer}

\* Variant: pausing rewinds to the first frame.
pauseMovie_Rewind ==
    /\ isPlaying' = FALSE
    /\ timers' = IF playInterval # Null THEN timers \ {playInterval} ELSE timers
    /\ playInterval' = Null
    /\ currentFrame' = 0
    /\ UNCHANGED <<frames, generations, generated, canvasFrame, initialFrames>>

\* pauseMovie()
pauseMovie ==
    /\ isPlaying' = FALSE
    /\ timers' = IF playInterval # Null THEN timers \ {playInterval} ELSE timers
    /\ playInterval' = Null
    /\ UNCHANGED <<frames, currentFrame, generations, generated,
                   canvasFrame, initialFrames>>

\* Variant: stopping leaves the playback position where it is.
stopMovie_KeepPosition ==
    /\ isPlaying' = FALSE
    /\ timers' = IF playInterval # Null THEN timers \ {playInterval} ELSE timers
    /\ playInterval' = Null
    /\ currentFrame' = Len(frames)
    /\ canvasFrame' = canvasFrame
    /\ UNCHANGED initialFrames

\* stopMovie(), from the tick that ran past the last frame: updateInitialFrame
\* composes the initial frame and awaits its bitmap
stopMovie ==
    /\ isPlaying' = FALSE
    /\ timers' = IF playInterval # Null THEN timers \ {playInterval} ELSE timers
    /\ playInterval' = Null
    /\ currentFrame' = 0
    /\ canvasFrame' = InitialFrame(TargetOfInputs)
    /\ initialFrames' = Append(initialFrames, InitialFrame(TargetOfInputs))

\* the callback of the interval timer id
TimerTick(id) ==
    /\ id \in timers
    /\ IF currentFrame + 1 >= Len(frames)
       THEN stopMovie
       ELSE /\ currentFrame' = currentFrame + 1
            /\ canvasFrame' = renderFrame(frames, currentFrame + 1, canvasFrame)
            /\ UNCHANGED <<isPlaying, playInterval, timers, initialFrames>>
    /\ UNCHANGED <<speedOfSoundInput, delayCall, validation, element, canvasOps,
                   callVars, numElementsInput, pitchInput, targetXInput,
                   targetYInput, movieDurationInput, rect, clickEvent,
                   frames, generations, generated>>

\* the play/pause "click" listener, up to the first await of generateMovie
PlayPauseClick ==
    /\ UNCHANGED <<speedOfSoundInput, delayCall, validation, element, canvasOps,
                   callVars, numElementsInput, pitchInput, targetXInput,
                   targetYInput, movieDurationInput, rect, clickEvent>>
    /\ IF isPlaying
       THEN pauseMovie
       ELSE IF Len(frames) > 0 /\ currentFrame > 0
       THEN /\ playMovie(frames, currentFrame, canvasFrame)
            /\ UNCHANGED <<frames, currentFrame, generations, generated,
                           initialFrames>>
       ELSE IF hasTarget /\ ~TargetIsValid(TargetOfInputs)
       THEN UNCHANGED <<movieVars, canvasFrame, initialFrames>>
       ELSE LET numElements == Num(numElementsInput)
                totalFrames == TotalFrames(movieDurationInput)
                elements == MovieElements(numElements, pitchInput,
                                          TargetTypeOfInputs, TargetOfInputs)
                first == createMultiElementFrameWithElements(
                             elements,
                             VisualCurrentTime(0, totalFrames, movieDurationInput),
                             TargetTypeOfInputs, TargetOfInputs)
            IN  /\ frames' = <<>>
                /\ currentFrame' = 0
                /\ UNCHANGED <<isPlaying, playInterval, timers, initialFrames>>
                /\ IF totalFrames > 0
                   THEN /\ canvasFrame' = first
                        /\ generated' = NotGenerated
                        /\ generations' =
                               Append(generations,
                                      [i |-> 0, totalFrames |-> totalFrames,
                                       movieDuration |-> movieDurationInput,
                                       visualSpeed |-> getSpeedOfSound,
                                       elements |-> elements,
                                       targetType |-> TargetTypeOfInputs,
                                       target |-> TargetOfInputs,
                                       bitmap |-> first])
                   ELSE /\ canvasFrame' = canvasFrame
                        /\ generated' = [done |-> TRUE, currentFrame |-> 0,
                                         totalFrames |-> totalFrames]
                        /\ UNCHANGED generations

\* the bitmap awaited by the generateMovie call g is ready: frames.push(bitmap),
\* then the next turn of the loop, or the end of generateMovie and playMovie()
GenerationStep(g) ==
    /\ g \in 1..Len(generations)
    /\ UNCHANGED <<speedOfSoundInput, delayCall, validation, element, canvasOps,
                   callVars, numElementsInput, pitchInput, targetXInput,
                   targetYInput, movieDurationInput, rect, clickEvent,
                   initialFrames>>
    /\ LET flow == generations[g]
           pushed == Append(frames, flow.bitmap)
           next == createMultiElementFrameWithElements(
                       flow.elements,
                       VisualCurrentTime(flow.i + 1, flow.totalFrames,
                                         flow.movieDuration),
                       flow.targetType, flow.target)
       IN  /\ frames' = pushed
           /\ IF flow.i + 1 < flow.totalFrames
              THEN /\ generations' =
                          [generations EXCEPT ![g] =
                              [flow EXCEPT !.i = flow.i + 1, !.bitmap = next]]
                   /\ canvasFrame' = next
                   /\ UNCHANGED <<currentFrame, isPlaying, playInterval, timers,
                                  generated>>
              ELSE /\ generations' =
                          [k \in 1..(Len(generations) - 1) |->
                              IF k < g THEN generations[k] ELSE generations[k + 1]]
                   /\ currentFrame' = 0
                   /\ generated' = [done |-> TRUE, currentFrame |-> 0,
                                    totalFrames |-> flow.totalFrames]
                   /\ playMovie(pushed, 0, canvasFrame)

\* the stop "click" listener
StopClick ==
    /\ stopMovie
    /\ UNCHANGED <<speedOfSoundInput, delayCall, validation, element, canvasOps,
                   callVars, numElementsInput, pitchInput, targetXInput,
                   targetYInput, movieDurationInput, rect, clickEvent,
                   frames, generations, generated>>

\* the previous-frame "click" listener
PrevFrameClick ==
    /\ IF currentFrame > 0
       THEN /\ currentFrame' = currentFrame - 1
            /\ canvasFrame' = renderFrame(frames, currentFrame - 1, canvasFrame)
       ELSE UNCHANGED <<currentFrame, canvasFrame>>
    /\ UNCHANGED <<speedOfSoundInput, delayCall, validation, element, canvasOps,
                   callVars, numElementsInput, pitchInput, targetXInput,
                   targetYInput, movieDurationInput, rect, clickEvent,
                   initialFrames, frames, isPlaying, playInterval, timers,
                   generations, generated>>

\* Variant: the next-frame button steps while currentFrame < frames.length.
NextFrameClick_PastTheEnd ==
    /\ IF currentFrame < Len(frames)
       THEN /\ currentFrame' = currentFrame + 1
            /\ canvasFrame' = renderFrame(frames, currentFrame + 1, canvasFrame)
       ELSE UNCHANGED <<currentFrame, canvasFrame>>
    /\ UNCHANGED <<speedOfSoundInput, delayCall, validation, element, canvasOps,
                   callVars, numElementsInput, pitchInput, targetXInput,
                   targetYInput, movieDurationInput, rect, clickEvent,
                   initialFrames, frames, isPlaying, playInterval, timers,
                   generations, generated>>

\* the next-frame "click" listener
NextFrameClick ==
    /\ IF currentFrame < Len(frames) - 1
       THEN /\ currentFrame' = currentFrame + 1
            /\ canvasFrame' = renderFrame(frames, currentFrame + 1, canvasFrame)
       ELSE UNCHANGED <<currentFrame, canvasFrame>>
    /\ UNCHANGED <<speedOfSoundInput, delayCall, validation, element, canvasOps,
                   callVars, numElementsInput, pitchInput, targetXInput,
                   targetYInput, movieDurationInput, rect, clickEvent,
                   initialFrames, frames, isPlaying, playInterval, timers,
                   generations, generated>>

\* the user sets the speed input to value; its "input" listener refreshes the
\* initial frame, up to the await of its bitmap
SpeedOfSoundInput(value) ==
    /\ speedOfSoundInput' = value
    /\ UNCHANGED <<delayCall, validation, element, canvasOps, callVars,
                   numElementsInput, pitchInput, targetXInput, targetYInput,
                   movieDurationInput, rect, clickEvent, movieVars>>
    /\ canvasFrame' = InitialFrame(TargetOfInputs)'
    /\ initialFrames' = Append(initialFrames, canvasFrame')

(***************************************************************************)
(* Inputs.                                                                 *)
(***************************************************************************)
SpeedInputs == {<<>>, <<100>>, <<200>>, <<300>>}

PositionPoints ==
    {[x |-> 256, y |-> 200], [x |-> 256, y |-> 240], [x |-> 256, y |-> 280],
     [x |-> 100, y |-> 100], [x |-> 300, y |-> 300]}

PositionLists == UNION {[1..n -> PositionPoints] : n \in 1..MaxElements}

DelayTargets ==
    {[x |-> 400, y |-> 240], [x |-> 256, y |-> 240], [x |-> 0, y |-> 0],
     [x |-> 400, y |-> 300]}

Canvases == {[width |-> 640, height |-> 480], [width |-> 800, height |-> 600]}

Near(limits) == {l + k : l \in limits, k \in -Slack..Slack}

TargetXs(c) ==
    Near({margin, c.width - margin, ElementXOf(c.width) - minDistance,
          ElementXOf(c.width), ElementXOf(c.width) + minDistance})
    \cup {10, 100, 300, 400}

TargetYs(c) == Near({margin, c.height - margin}) \cup {10, 240}

ElementDelays ==
    {Zero, Rat(1, 1000), Rat(1, 2), Rat(19, 20), Rat(19, 15), Num(2)}

ElementShapes ==
    {[radius |-> 10, lineLength |-> 200], [radius |-> 15, lineLength |-> 250]}

Elements ==
    {ArrayElement(x, 200, d, sh.radius, sh.lineLength) :
        x \in {100, 256}, d \in ElementDelays, sh \in ElementShapes}

DrawTimes ==
    {Rat(k, 4) : k \in -1..MaxTick}
    \cup {Rat(-1, 1000), Rat(1, 2000), Rat(1, 1000), Rat(11, 10000)}

LinearDrawTimes ==
    DrawTimes \cup {linearDelay(Num(v)) : v \in {100, 150, 200, 300}}

BuilderCounts ==
    {Num(k) : k \in 0..MaxElements}
    \cup {Rat(2 * k + 1, 2) : k \in 0..(MaxElements - 1)}
    \cup {Rat(79, 10)}

BuilderPitches == {Zero, Num(5), Num(40), Rat(5, 2)}

BuilderDelays ==
    {ScalarDelay(d) : d \in {Zero, Rat(1, 1000), Rat(19, 15)}}
    \cup {DelayArray(ds) :
            ds \in UNION {[1..n -> {Rat(1, 1000), Rat(1, 500)}] : n \in 0..MaxElements}}

\* elements as the evaluator's callers and tests make them, with a target
AmplitudeElement(x, y, delay) == ArrayElement(x, y, delay, 10, 200)

AmplitudeCases ==
    {[elements |-> <<>>, targetX |-> 200, targetY |-> 100],
     [elements |-> <<AmplitudeElement(100, 100, Zero)>>,
      targetX |-> 200, targetY |-> 100],
     [elements |-> <<AmplitudeElement(100, 100, Rat(1, 2))>>,
      targetX |-> 200, targetY |-> 100],
     [elements |-> <<AmplitudeElement(100, 100, Zero)>>,
      targetX |-> 100, targetY |-> 100],
     [elements |-> <<AmplitudeElement(100, 100, Zero)>>,
      targetX |-> 200, targetY |-> 125],
     [elements |-> <<AmplitudeElement(100, 100, Zero),
                     AmplitudeElement(100, 250, Zero)>>,
      targetX |-> 300, targetY |-> 100],
     [elements |-> <<AmplitudeElement(100, 100, Zero),
                     AmplitudeElement(100, 250, Rat(1, 4))>>,
      targetX |-> 200, targetY |-> 175],
     [elements |-> <<AmplitudeElement(100, 100, Zero),
                     AmplitudeElement(100, 250, Zero),
                     AmplitudeElement(100, 175, Num(1))>>,
      targetX |-> 200, targetY |-> 175]}

AmplitudeTimes == {Rat(k, 20) : k \in 0..(5 * MaxTick)}

Rects ==
    {[left |-> Num(10), top |-> Num(20), width |-> Num(640), height |-> Num(480)],
     [left |-> Num(10), top |-> Num(20), width |-> Num(320), height |-> Num(240)],
     [left |-> Rat(21, 2), top |-> Zero, width |-> Num(640), height |-> Num(480)]}

Clicks ==
    {[clientX |-> 110, clientY |-> 70], [clientX |-> 410, clientY |-> 260],
     [clientX |-> 210, clientY |-> 120], [clientX |-> 30, clientY |-> 30],
     [clientX |-> 510, clientY |-> 320]}

PagePitches == {Num(5), Num(40)}

MovieTargets == {<<>>, <<400, 300>>}

MovieDurations ==
    {Rat(k, APP_FRAME_RATE) : k \in 1..MaxFrames} \cup {Rat(3, 100), Rat(1, 20)}

\* valid targets, and pitches that put the elements on whole pixels
FocusTargets == {<<400, 300>>, <<400, 240>>, <<500, 100>>}

FocusPitches == {Num(20), Num(40)}

\* the elements of the current configuration in point mode, their
\* coordinates as whole pixels
FocusElements ==
    LET elements == MovieElements(Num(numElementsInput), pitchInput, "point",
                                  TargetOfInputs)
    IN  [k \in 1..Len(elements) |->
            [elements[k] EXCEPT !.x = elements[k].x[1] \div elements[k].x[2],
                                !.y = elements[k].y[1] \div elements[k].y[2]]]

\* maxDistance / speed: the time the wave of the farthest element, fired at
\* 0, takes to the target
FocusArrival ==
    Div(MaxOf(Distances(FocusElements, targetXInput[1], targetYInput[1])),
        getSpeedOfSound)

\* evaluation times around the arrival, in steps of 1/8 of the 5 Hz period
FocusTimes == {Add(FocusArrival, Rat(k, 40)) : k \in (-MaxTick)..MaxTick}

ControlDurations == {Rat(k, APP_FRAME_RATE) : k \in 0..2}

SessionSpeeds == {<<0>>, <<200>>}

\* a click that sets an invalid target (too close to the left edge)
SessionClicks == {[clientX |-> 30, clientY |-> 30]}

(***************************************************************************)
(* Specifications: one per component, the rest of the state at rest.  The   *)
(* components are pure functions of their arguments and of the speed       *)
(* input, so a behaviour is one choice of inputs followed by one call.     *)
(***************************************************************************)
CallsAtRest ==
    /\ builderCall = NoBuilderCall
    /\ amplitudeCall = NoAmplitudeCall

PageAtRest ==
    /\ numElementsInput = 1
    /\ pitchInput = Num(40)
    /\ targetXInput = <<>>
    /\ targetYInput = <<>>
    /\ movieDurationInput = Num(1)
    /\ rect = [left |-> Zero, top |-> Zero,
               width |-> Num(canvas.width), height |-> Num(canvas.height)]
    /\ clickEvent = NoClick
    /\ canvasFrame = NoFrame
    /\ initialFrames = <<>>

MovieAtRest ==
    /\ frames = <<>>
    /\ currentFrame = 0
    /\ isPlaying = FALSE
    /\ playInterval = Null
    /\ timers = {}
    /\ generations = <<>>
    /\ generated = NotGenerated
    /\ events = 0

InitDelays ==
    /\ speedOfSoundInput \in SpeedInputs
    /\ delayCall = NoDelayCall
    /\ validation = NoValidation
    /\ element = ArrayElement(0, 0, Zero, 10, 200)
    /\ canvasOps = NoDraw
    /\ CallsAtRest
    /\ PageAtRest
    /\ MovieAtRest

NextDelays ==
    /\ UNCHANGED events
    /\ ~delayCall.called
    /\ \E ps \in PositionLists, tg \in DelayTargets :
           CalculatePointTargetDelays(ps, tg.x, tg.y)

SpecDelays == InitDelays /\ [][NextDelays]_vars

InitValidator ==
    /\ speedOfSoundInput = <<>>
    /\ delayCall = NoDelayCall
    /\ validation = NoValidation
    /\ element = ArrayElement(0, 0, Zero, 10, 200)
    /\ canvasOps = NoDraw
    /\ CallsAtRest
    /\ PageAtRest
    /\ MovieAtRest

NextValidator ==
    /\ UNCHANGED events
    /\ ~validation.called
    /\ \E c \in Canvases :
          \E tx \in TargetXs(c), ty \in TargetYs(c) :
              ValidateTargetPoint(tx, ty, c.width, c.height)

SpecValidator == InitValidator /\ [][NextValidator]_vars

InitElement ==
    /\ speedOfSoundInput \in SpeedInputs
    /\ delayCall = NoDelayCall
    /\ validation = NoValidation
    /\ element \in Elements
    /\ canvasOps = NoDraw
    /\ CallsAtRest
    /\ PageAtRest
    /\ MovieAtRest

NextElement ==
    /\ UNCHANGED events
    /\ ~canvasOps.called
    /\ \E t \in DrawTimes : DrawElementsAtTime(t)

SpecElement == InitElement /\ [][NextElement]_vars

InitLinear ==
    /\ speedOfSoundInput \in SpeedInputs
    /\ delayCall = NoDelayCall
    /\ validation = NoValidation
    /\ element \in {ArrayElement(x, 200, linearDelay(getSpeedOfSound),
                                 DEFAULT_ELEMENT_RADIUS, DEFAULT_LINE_LENGTH) :
                       x \in {100, 256}}
    /\ canvasOps = NoDraw
    /\ CallsAtRest
    /\ PageAtRest
    /\ MovieAtRest

NextLinear ==
    /\ UNCHANGED events
    /\ ~canvasOps.called
    /\ \E t \in LinearDrawTimes : DrawElementsAtTime(t)

SpecLinear == InitLinear /\ [][NextLinear]_vars

InitBuilder ==
    /\ speedOfSoundInput = <<>>
    /\ delayCall = NoDelayCall
    /\ validation = NoValidation
    /\ element = ArrayElement(0, 0, Zero, 10, 200)
    /\ canvasOps = NoDraw
    /\ CallsAtRest
    /\ PageAtRest
    /\ MovieAtRest

NextBuilder ==
    /\ UNCHANGED events
    /\ ~builderCall.called
    /\ \E n \in BuilderCounts, p \in BuilderPitches, ds \in BuilderDelays,
          c \in Canvases :
           CreateElementArray(n, p, ds, c)

SpecBuilder == InitBuilder /\ [][NextBuilder]_vars

InitAmplitude ==
    /\ speedOfSoundInput \in SpeedInputs
    /\ delayCall = NoDelayCall
    /\ validation = NoValidation
    /\ element = ArrayElement(0, 0, Zero, 10, 200)
    /\ canvasOps = NoDraw
    /\ CallsAtRest
    /\ PageAtRest
    /\ MovieAtRest

NextAmplitude ==
    /\ UNCHANGED events
    /\ ~amplitudeCall.called
    /\ \E c \in AmplitudeCases, t \in AmplitudeTimes :
           CalculateWaveAmplitudeAtTarget(c.elements, c.targetX, c.targetY, t)

SpecAmplitude == InitAmplitude /\ [][NextAmplitude]_vars

\* the page as loaded: no target, nothing shown yet
InitPage ==
    /\ speedOfSoundInput \in SpeedInputs
    /\ delayCall = NoDelayCall
    /\ validation = NoValidation
    /\ element = ArrayElement(0, 0, Zero, 10, 200)
    /\ canvasOps = NoDraw
    /\ CallsAtRest
    /\ numElementsInput \in 1..MaxElements
    /\ pitchInput \in PagePitches
    /\ targetXInput = <<>>
    /\ targetYInput = <<>>
    /\ movieDurationInput = Num(1)
    /\ rect \in Rects
    /\ clickEvent = NoClick
    /\ canvasFrame = NoFrame
    /\ initialFrames = <<>>
    /\ MovieAtRest

NextPage ==
    /\ UNCHANGED events
    /\ \/ /\ Len(initialFrames) < MaxPending
          /\ \E c \in Clicks : CanvasClick(c.clientX, c.clientY)
       \/ \E i \in 1..Len(initialFrames) : InitialFrameReady(i)

SpecPage == InitPage /\ [][NextPage]_vars

\* the page with its inputs filled in, before the first click on play
InitPlayback ==
    /\ speedOfSoundInput \in SpeedInputs
    /\ delayCall = NoDelayCall
    /\ validation = NoValidation
    /\ element = ArrayElement(0, 0, Zero, 10, 200)
    /\ canvasOps = NoDraw
    /\ CallsAtRest
    /\ numElementsInput \in 1..2
    /\ pitchInput = Num(40)
    /\ \E target \in MovieTargets :
          IF target = <<>>
          THEN targetXInput = <<>> /\ targetYInput = <<>>
          ELSE targetXInput = <<target[1]>> /\ targetYInput = <<target[2]>>
    /\ movieDurationInput \in MovieDurations
    /\ rect = [left |-> Zero, top |-> Zero,
               width |-> Num(canvas.width), height |-> Num(canvas.height)]
    /\ clickEvent = NoClick
    /\ canvasFrame = NoFrame
    /\ initialFrames = <<>>
    /\ MovieAtRest

\* the user clicks play when nothing is playing or being generated, and then
\* leaves the page to itself
NextPlayback ==
    /\ UNCHANGED events
    /\ \/ /\ ~isPlaying
          /\ generations = <<>>
          /\ Len(initialFrames) < MaxPending
          /\ PlayPauseClick
       \/ \E g \in 1..Len(generations) : GenerationStep(g)
       \/ \E id \in timers : TimerTick(id)
       \/ \E i \in 1..Len(initialFrames) : InitialFrameReady(i)

\* the event loop runs every timer callback and resolves every awaited bitmap
SpecPlayback ==
    /\ InitPlayback
    /\ [][NextPlayback]_vars
    /\ WF_vars(UNCHANGED events /\ \E g \in 1..Len(generations) : GenerationStep(g))
    /\ WF_vars(UNCHANGED events /\ \E id \in timers : TimerTick(id))
    /\ WF_vars(UNCHANGED events /\ \E i \in 1..Len(initialFrames) : InitialFrameReady(i))

\* one element to draw, and the page with a movie configured
InitLifecycle ==
    /\ speedOfSoundInput \in SpeedInputs
    /\ delayCall = NoDelayCall
    /\ validation = NoValidation
    /\ element \in Elements
    /\ canvasOps = NoDraw
    /\ CallsAtRest
    /\ numElementsInput \in 1..2
    /\ pitchInput = Num(40)
    /\ \E target \in MovieTargets :
          IF target = <<>>
          THEN targetXInput = <<>> /\ targetYInput = <<>>
          ELSE targetXInput = <<target[1]>> /\ targetYInput = <<target[2]>>
    /\ movieDurationInput = Rat(MaxFrames - 1, APP_FRAME_RATE)
    /\ rect = [left |-> Zero, top |-> Zero,
               width |-> Num(canvas.width), height |-> Num(canvas.height)]
    /\ clickEvent = NoClick
    /\ canvasFrame = NoFrame
    /\ initialFrames = <<>>
    /\ MovieAtRest

\* a behaviour is one draw of the element, or movies generated and played
\* one after the other
NextLifecycle ==
    /\ UNCHANGED events
    /\ ~canvasOps.called
    /\ \/ /\ generated = NotGenerated
          /\ generations = <<>>
          /\ \E t \in DrawTimes : DrawElementsAtTime(t)
       \/ /\ ~isPlaying
          /\ generations = <<>>
          /\ initialFrames = <<>>
          /\ PlayPauseClick
       \/ \E g \in 1..Len(generations) : GenerationStep(g)
       \/ \E id \in timers : TimerTick(id)
       \/ \E i \in 1..Len(initialFrames) : InitialFrameReady(i)

SpecLifecycle == InitLifecycle /\ [][NextLifecycle]_vars

\* a valid target is set: the array focused on it is evaluated at the target
InitFocus ==
    /\ speedOfSoundInput \in SpeedInputs
    /\ delayCall = NoDelayCall
    /\ validation = NoValidation
    /\ element = ArrayElement(0, 0, Zero, 10, 200)
    /\ canvasOps = NoDraw
    /\ CallsAtRest
    /\ numElementsInput \in 1..MaxElements
    /\ pitchInput \in FocusPitches
    /\ \E target \in FocusTargets :
          targetXInput = <<target[1]>> /\ targetYInput = <<target[2]>>
    /\ movieDurationInput = Num(1)
    /\ rect = [left |-> Zero, top |-> Zero,
               width |-> Num(canvas.width), height |-> Num(canvas.height)]
    /\ clickEvent = NoClick
    /\ canvasFrame = NoFrame
    /\ initialFrames = <<>>
    /\ MovieAtRest

NextFocus ==
    /\ UNCHANGED events
    /\ ~amplitudeCall.called
    /\ \E t \in FocusTimes :
           CalculateWaveAmplitudeAtTarget(FocusElements, targetXInput[1],
                                          targetYInput[1], t)

SpecFocus == InitFocus /\ [][NextFocus]_vars

\* the page with a movie configured: the user works the playback buttons
InitControls ==
    /\ speedOfSoundInput = <<>>
    /\ delayCall = NoDelayCall
    /\ validation = NoValidation
    /\ element = ArrayElement(0, 0, Zero, 10, 200)
    /\ canvasOps = NoDraw
    /\ CallsAtRest
    /\ numElementsInput = 2
    /\ pitchInput = Num(40)
    /\ targetXInput = <<400>>
    /\ targetYInput = <<300>>
    /\ movieDurationInput \in ControlDurations
    /\ rect = [left |-> Zero, top |-> Zero,
               width |-> Num(canvas.width), height |-> Num(canvas.height)]
    /\ clickEvent = NoClick
    /\ canvasFrame = NoFrame
    /\ initialFrames = <<>>
    /\ MovieAtRest

\* any button at any time; timers fire and awaited bitmaps become ready in
\* any order
NextControls ==
    \/ /\ events < MaxEvents
       /\ events' = events + 1
       /\ initialFrames = <<>>
       /\ \/ PlayPauseClick
          \/ StopClick
          \/ PrevFrameClick
          \/ NextFrameClick
    \/ /\ UNCHANGED events
       /\ \/ \E g \in 1..Len(generations) : GenerationStep(g)
          \/ \E id \in timers : initialFrames = <<>> /\ TimerTick(id)
          \/ \E i \in 1..Len(initialFrames) : InitialFrameReady(i)

SpecControls == InitControls /\ [][NextControls]_vars

\* the page with a movie configured: the user changes the speed, clicks the
\* canvas and the play button
InitReconfigure ==
    /\ speedOfSoundInput = <<100>>
    /\ delayCall = NoDelayCall
    /\ validation = NoValidation
    /\ element = ArrayElement(0, 0, Zero, 10, 200)
    /\ canvasOps = NoDraw
    /\ CallsAtRest
    /\ numElementsInput = 2
    /\ pitchInput = Num(40)
    /\ \E target \in MovieTargets :
          IF target = <<>>
          THEN targetXInput = <<>> /\ targetYInput = <<>>
          ELSE targetXInput = <<target[1]>> /\ targetYInput = <<target[2]>>
    /\ movieDurationInput = Rat(2, APP_FRAME_RATE)
    /\ rect = [left |-> Zero, top |-> Zero,
               width |-> Num(canvas.width), height |-> Num(canvas.height)]
    /\ clickEvent = NoClick
    /\ canvasFrame = NoFrame
    /\ initialFrames = <<>>
    /\ MovieAtRest

\* one event fewer than in the other sessions: a change of the speed and the
\* clicks on play around it
NextReconfigure ==
    \/ /\ events < MaxEvents - 1
       /\ events' = events + 1
       /\ initialFrames = <<>>
       /\ \/ PlayPauseClick
          \/ \E value \in SessionSpeeds : SpeedOfSoundInput(value)
    \/ /\ UNCHANGED events
       /\ \/ \E g \in 1..Len(generations) : GenerationStep(g)
          \/ \E id \in timers : initialFrames = <<>> /\ TimerTick(id)
          \/ \E i \in 1..Len(initialFrames) : InitialFrameReady(i)

SpecReconfigure == InitReconfigure /\ [][NextReconfigure]_vars

\* the page with a movie configured for a valid target: the user clicks the
\* canvas and the play button
InitRetarget ==
    /\ speedOfSoundInput = <<100>>
    /\ delayCall = NoDelayCall
    /\ validation = NoValidation
    /\ element = ArrayElement(0, 0, Zero, 10, 200)
    /\ canvasOps = NoDraw
    /\ CallsAtRest
    /\ numElementsInput = 2
    /\ pitchInput = Num(40)
    /\ targetXInput = <<400>>
    /\ targetYInput = <<300>>
    /\ movieDurationInput = Rat(2, APP_FRAME_RATE)
    /\ rect = [left |-> Zero, top |-> Zero,
               width |-> Num(canvas.width), height |-> Num(canvas.height)]
    /\ clickEvent = NoClick
    /\ canvasFrame = NoFrame
    /\ initialFrames = <<>>
    /\ MovieAtRest

NextRetarget ==
    \/ /\ events < MaxEvents
       /\ events' = events + 1
       /\ initialFrames = <<>>
       /\ \/ PlayPauseClick
          \/ \E c \in SessionClicks : CanvasClick(c.clientX, c.clientY)
    \/ /\ UNCHANGED events
       /\ \/ \E g \in 1..Len(generations) : GenerationStep(g)
          \/ \E id \in timers : initialFrames = <<>> /\ TimerTick(id)
          \/ \E i \in 1..Len(initialFrames) : InitialFrameReady(i)

SpecRetarget == InitRetarget /\ [][NextRetarget]_vars

(***************************************************************************)
(* Properties of the delay calculator (SpecDelays).                        *)
(***************************************************************************)
\* distance of element i of the last call to its target
CallDistance(i) ==
    Distance(delayCall.elementPositions[i], delayCall.targetX, delayCall.targetY)

CallIndices == 1..Len(delayCall.elementPositions)

\* the elements of the last call at maximum distance from the target
Farthest == {i \in CallIndices : \A j \in CallIndices : Le(CallDistance(j), CallDistance(i))}

\* the elements of the last call at minimum distance from the target
Nearest == {i \in CallIndices : \A j \in CallIndices : Le(CallDistance(i), CallDistance(j))}

\* C1: after calculatePointTargetDelays on a non-empty position list with a
\* speed > 0, delay_i + distance_i / speed is the same for every element i
\* and equals maxDistance / speed: all wavefronts reach the target together.
C1_SimultaneousArrival ==
    delayCall.called =>
        /\ DOMAIN delayCall.delays = CallIndices
        /\ \A i \in CallIndices : \A m \in Farthest :
              Add(delayCall.delays[i], Div(CallDistance(i), delayCall.speed))
                  = Div(CallDistance(m), delayCall.speed)

\* A call on three elements at three different distances, at a speed other
\* than the fallback.
C1_Witness ==
    /\ delayCall.called
    /\ Len(delayCall.elementPositions) = 3
    /\ delayCall.speed = Num(300)
    /\ \A i, j \in CallIndices : i # j => CallDistance(i) # CallDistance(j)

\* C2: in point mode the delay vector has the length and the order of the
\* positions, every delay is >= 0, and the minimum delay is 0 and belongs to
\* the elements at maximum distance (so a single element gets delay 0).
C2_FarthestFiresAtZero ==
    delayCall.called =>
        /\ Len(delayCall.delays) = Len(delayCall.elementPositions)
        /\ \A i \in CallIndices : Le(Zero, delayCall.delays[i])
        /\ Farthest # {}
        /\ \A i \in CallIndices : i \in Farthest <=> delayCall.delays[i] = Zero
        /\ Len(delayCall.elementPositions) = 1 => delayCall.delays = <<Zero>>

\* A call where the farthest element is not the first of the list and some
\* other element has a positive delay.
C2_Witness ==
    /\ delayCall.called
    /\ Len(delayCall.elementPositions) >= 2
    /\ 1 \notin Farthest
    /\ Lt(Zero, delayCall.delays[1])

\* C3: point-mode delays reverse the order of the distances: a strictly
\* nearer element has a strictly larger delay, equal distances give equal
\* delays, and the nearest elements have the largest delay.
C3_DelayOrderReversing ==
    delayCall.called =>
        /\ \A i, j \in CallIndices :
              /\ Lt(CallDistance(i), CallDistance(j))
                    => Lt(delayCall.delays[j], delayCall.delays[i])
              /\ CallDistance(i) = CallDistance(j)
                    => delayCall.delays[i] = delayCall.delays[j]
        /\ \A i \in Nearest : \A j \in CallIndices :
              Le(delayCall.delays[j], delayCall.delays[i])

\* A call with two elements at different distances and two at equal distance.
C3_Witness ==
    /\ delayCall.called
    /\ \E i, j \in CallIndices : Lt(CallDistance(i), CallDistance(j))
    /\ \E i, j \in CallIndices :
          /\ delayCall.elementPositions[i] # delayCall.elementPositions[j]
          /\ CallDistance(i) = CallDistance(j)

(***************************************************************************)
(* Properties of the target validator (SpecValidator).                     *)
(***************************************************************************)
\* the three checks, on the arguments of the last call
EdgesOk ==
    /\ margin <= validation.targetX
    /\ validation.targetX <= validation.canvasWidth - margin
    /\ margin <= validation.targetY
    /\ validation.targetY <= validation.canvasHeight - margin

StandoffOk == Abs(validation.targetX - validation.elementX) >= minDistance

ForwardOk == validation.targetX >= validation.elementX

HasMessage(m) ==
    /\ "errorMessage" \in DOMAIN validation.result
    /\ validation.result.errorMessage = m

\* C4: validateTargetPoint always returns a result; isValid is true exactly
\* when the edge, standoff and forward checks all pass; an invalid result
\* carries a reason string and a valid result carries none.
C4_ValidIffAllChecksPass ==
    validation.called =>
        /\ validation.result.isValid <=> (EdgesOk /\ StandoffOk /\ ForwardOk)
        /\ ~validation.result.isValid =>
              \E m \in {EdgeMessage, StandoffMessage, BehindMessage} : HasMessage(m)
        /\ validation.result.isValid => DOMAIN validation.result = {"isValid"}

\* A valid target exactly on the right and bottom margins of the 640x480 canvas.
C4_Witness ==
    /\ validation.called
    /\ validation.canvasWidth = 640
    /\ validation.targetX = 590
    /\ validation.targetY = 430
    /\ validation.result.isValid

\* C5: the first failing check wins, in the order edges, standoff, forward:
\* an edge violation always gives the edge message, a standoff violation
\* inside the margins gives the standoff message, and the behind-the-array
\* message is only given to targets that pass the edge and standoff checks.
C5_FirstFailingCheckWins ==
    validation.called =>
        /\ ~EdgesOk => HasMessage(EdgeMessage)
        /\ (EdgesOk /\ ~StandoffOk) => HasMessage(StandoffMessage)
        /\ HasMessage(BehindMessage) => (EdgesOk /\ StandoffOk /\ ~ForwardOk)

\* A target that fails all three checks at once and gets the edge message.
C5_Witness ==
    /\ validation.called
    /\ ~EdgesOk
    /\ ~StandoffOk
    /\ ~ForwardOk
    /\ HasMessage(EdgeMessage)

\* the last call was validateTargetPoint(tx, 240, 640, 480, 256)
StandoffCase(tx) ==
    /\ validation.called
    /\ validation.canvasWidth = 640
    /\ validation.canvasHeight = 480
    /\ validation.elementX = 256
    /\ validation.targetX = tx
    /\ validation.targetY = 240

\* C6 as stated: on the 640x480 canvas with arrayX = 256, target (357,240)
\* is valid and target (356,240) is invalid with the too-close reason.
C6_AsStated ==
    /\ StandoffCase(357) => validation.result.isValid
    /\ StandoffCase(356) =>
          (~validation.result.isValid /\ HasMessage(StandoffMessage))

\* C6 (amended): on the 640x480 canvas with arrayX = 256, targets (357,240)
\* and (356,240) are both valid, 356 being exactly minDistance from the
\* array; (355,240) is the first target rejected with the too-close reason.
C6_StandoffBoundary ==
    /\ StandoffCase(357) => validation.result.isValid
    /\ StandoffCase(356) => validation.result.isValid
    /\ StandoffCase(355) =>
          (~validation.result.isValid /\ HasMessage(StandoffMessage))

\* The validator was called with (356,240) and accepted it.
C6_Witness == StandoffCase(356) /\ validation.result.isValid

(***************************************************************************)
(* Properties of ArrayElement.draw (SpecElement).                          *)
(***************************************************************************)
PulseDrawn == canvasOps.ops.pulse # <<>>

WaveDrawn == canvasOps.ops.wave # <<>>

\* the element marker and the trigger line, as drawn on every call
MarkerAndLineDrawn ==
    /\ canvasOps.ops.circle = Arc(Num(element.x), element.y, Num(element.radius), 0, 4)
    /\ canvasOps.ops.line = [x1 |-> element.x - element.lineLength,
                             x2 |-> element.x - element.radius,
                             y |-> element.y]

\* C7: the phases of an element exclude each other and depend only on t
\* against delay: the pulse is drawn only if t < delay, the wavefront is
\* drawn exactly if t > delay, never both, and at t = delay neither is
\* drawn, only the marker and the trigger line.
C7_PhasesExclusive ==
    canvasOps.called =>
        /\ PulseDrawn => Lt(canvasOps.t, element.delay)
        /\ WaveDrawn <=> Lt(element.delay, canvasOps.t)
        /\ ~(PulseDrawn /\ WaveDrawn)
        /\ MarkerAndLineDrawn
        /\ canvasOps.t = element.delay => (~PulseDrawn /\ ~WaveDrawn)

\* A draw at exactly t = delay > 0.
C7_Witness ==
    /\ canvasOps.called
    /\ Lt(Zero, element.delay)
    /\ canvasOps.t = element.delay
    /\ ~PulseDrawn
    /\ ~WaveDrawn

\* C8 as stated: for every t > delay the element draws a right-opening
\* half circle of radius speed * (t - delay), speed being the value passed
\* to the draw call.
C8_AsStated ==
    (canvasOps.called /\ Lt(element.delay, canvasOps.t)) =>
        canvasOps.ops.wave =
            <<Arc(Num(element.x), element.y,
                  Mul(canvasOps.speed, Sub(canvasOps.t, element.delay)), -1, 1)>>

\* start of the pulse and its position at the time of the last draw, for the
\* speed passed to the draw call
StatedStartTime ==
    Sub(element.delay,
        Div(Num(element.lineLength - element.radius), canvasOps.speed))

StatedPulseX ==
    Add(Num(element.x - element.lineLength),
        Mul(canvasOps.speed, Sub(canvasOps.t, StatedStartTime)))

\* C9 as stated: with startTime = delay - (lineLength - radius) / speed the
\* pulse is drawn at t exactly if t < delay, t >= startTime and its position
\* lineStart + speed * (t - startTime) lies in [x - lineLength, x - radius],
\* and it is drawn at that position.
C9_AsStated ==
    canvasOps.called =>
        /\ PulseDrawn <=>
              /\ Lt(canvasOps.t, element.delay)
              /\ Le(StatedStartTime, canvasOps.t)
              /\ Le(Num(element.x - element.lineLength), StatedPulseX)
              /\ Le(StatedPulseX, Num(element.x - element.radius))
        /\ PulseDrawn => canvasOps.ops.pulse[1].x = StatedPulseX

\* C10 as stated: an element with delay 0 draws no pulse at any t >= 0 and,
\* for every t > 0, draws the wavefront with radius speed * t.
C10_AsStated ==
    (canvasOps.called /\ element.delay = Zero) =>
        /\ Le(Zero, canvasOps.t) => ~PulseDrawn
        /\ Lt(Zero, canvasOps.t) =>
              canvasOps.ops.wave =
                  <<Arc(Num(element.x), element.y,
                        Mul(canvasOps.speed, canvasOps.t), -1, 1)>>

(***************************************************************************)
(* Properties of linear targeting (SpecLinear).                            *)
(***************************************************************************)
\* C11 as stated: an element with the linear delay (lineLength - radius) /
\* speed, drawn with that speed, shows its pulse at every t in [0, delay) at
\* x - lineLength + speed * t (the far end of the trigger line at t = 0), and
\* that position is x - radius at t = delay.
C11_AsStated ==
    canvasOps.called =>
        /\ (Le(Zero, canvasOps.t) /\ Lt(canvasOps.t, element.delay)) =>
              /\ PulseDrawn
              /\ canvasOps.ops.pulse[1].x =
                     Add(Num(element.x - element.lineLength),
                         Mul(canvasOps.speed, canvasOps.t))
        /\ Add(Num(element.x - element.lineLength),
               Mul(canvasOps.speed, element.delay))
               = Num(element.x - element.radius)

(***************************************************************************)
(* Properties of the element array builder (SpecBuilder).                  *)
(***************************************************************************)
\* numElements of the last call is an integer
CountIsInteger == builderCall.numElements[2] = 1

\* C12: for an integer numElements >= 1 the builder returns numElements
\* elements, all at x = 0.4 * canvasWidth, element i (from 0) at
\* y = (canvasHeight - (numElements - 1) * pitch) / 2 + i * pitch, so that
\* consecutive elements are pitch apart going down the canvas and the
\* midpoint of the first and the last is canvasHeight / 2.
C12_CentredUniformLayout ==
    (builderCall.called /\ CountIsInteger /\ builderCall.numElements[1] >= 1) =>
        LET n == builderCall.numElements[1]
            es == builderCall.elements
            pitch == builderCall.pitch
            width == Num(builderCall.canvas.width)
            height == Num(builderCall.canvas.height)
        IN  /\ Len(es) = n
            /\ \A i \in 1..n :
                  /\ es[i].x = Mul(width, Rat(2, 5))
                  /\ es[i].y = Add(Div(Sub(height, Mul(Num(n - 1), pitch)), Num(2)),
                                   Mul(Num(i - 1), pitch))
            /\ \A i \in 1..(n - 1) :
                  /\ Sub(es[i + 1].y, es[i].y) = pitch
                  /\ Le(es[i].y, es[i + 1].y)
            /\ Div(Add(es[1].y, es[n].y), Num(2)) = Div(height, Num(2))

C12_Witness ==
    /\ builderCall.called
    /\ builderCall.numElements = Num(3)
    /\ builderCall.pitch = Num(40)
    /\ Len(builderCall.elements) = 3
    /\ builderCall.elements[1].y # builderCall.elements[3].y

\* C13: delays go to the elements by index: a scalar to every element, a
\* vector entry i to element i, and an undefined delay to the elements past
\* the end of a vector; the number of elements does not depend on the delays.
C13_DelaysByIndex ==
    builderCall.called =>
        LET es == builderCall.elements
            ds == builderCall.delays
        IN  /\ Len(es) = IF Lt(Zero, builderCall.numElements)
                         THEN Ceil(builderCall.numElements) ELSE 0
            /\ \A i \in 1..Len(es) :
                  es[i].delay =
                      IF ~ds.isArray THEN ds.items[1]
                      ELSE IF i <= Len(ds.items) THEN ds.items[i]
                      ELSE Undefined

C13_Witness ==
    /\ builderCall.called
    /\ builderCall.delays.isArray
    /\ Len(builderCall.delays.items) = 2
    /\ Len(builderCall.elements) = 3
    /\ builderCall.elements[2].delay = builderCall.delays.items[2]
    /\ builderCall.elements[3].delay = Undefined

\* C20: for a positive numElements N that is not an integer the builder
\* returns floor(N) + 1 elements.
C20_FractionalCount ==
    (builderCall.called /\ ~CountIsInteger /\ Lt(Zero, builderCall.numElements)) =>
        Len(builderCall.elements)
            = (builderCall.numElements[1] \div builderCall.numElements[2]) + 1

C20_Witness ==
    /\ builderCall.called
    /\ builderCall.numElements = Rat(79, 10)
    /\ Len(builderCall.elements) = 8

(***************************************************************************)
(* Properties of the interference evaluator (SpecAmplitude).               *)
(***************************************************************************)
\* time from the arrival of the wave of element i of the last call at the
\* target to the time of the call (negative before the arrival)
TimeSinceArrival(i) ==
    LET self == amplitudeCall.elements[i]
    IN  Sub(Sub(amplitudeCall.currentTime, self.delay),
            Div(Distance(self, amplitudeCall.targetX, amplitudeCall.targetY),
                getSpeedOfSound))

\* the elements of the last call whose wave has arrived: t >= delay and
\* t - delay >= distance / speed
ArrivedElements ==
    {i \in 1..Len(amplitudeCall.elements) :
        /\ Le(amplitudeCall.elements[i].delay, amplitudeCall.currentTime)
        /\ Le(Zero, TimeSinceArrival(i))}

\* the elements of the last call whose wave has arrived, as a list
ArrivedList ==
    SelectSeq([i \in 1..Len(amplitudeCall.elements) |->
                  [index |-> i, self |-> amplitudeCall.elements[i]]],
              LAMBDA e : e.index \in ArrivedElements)

\* C14: the evaluator returns exactly 0 when no wave has arrived, a value in
\* [0, 1] when at least one has, and the same value as for the arrived
\* elements alone.
C14_ZeroBeforeArrival ==
    amplitudeCall.called =>
        /\ ArrivedElements = {} => amplitudeCall.amplitude = Zero
        /\ ArrivedElements # {} =>
              /\ Le(Zero, amplitudeCall.amplitude)
              /\ Le(amplitudeCall.amplitude, Num(1))
        /\ amplitudeCall.amplitude =
               calculateWaveAmplitudeAtTarget(
                   [k \in 1..Len(ArrivedList) |-> ArrivedList[k].self],
                   amplitudeCall.targetX, amplitudeCall.targetY,
                   amplitudeCall.currentTime)

C14_Witness ==
    /\ amplitudeCall.called
    /\ ArrivedElements # {}
    /\ ArrivedElements # 1..Len(amplitudeCall.elements)
    /\ Lt(Zero, amplitudeCall.amplitude)

\* C15 as stated: once a wave has arrived the evaluator returns a value
\* strictly greater than 0 and at most 1.
C15_AsStated ==
    (amplitudeCall.called /\ ArrivedElements # {}) =>
        /\ Lt(Zero, amplitudeCall.amplitude)
        /\ Le(amplitudeCall.amplitude, Num(1))

\* the wave of element i is at its trough at the target: frequency times the
\* time since its arrival is three quarters past a whole number of periods,
\* where the sine is -1
AtTrough(i) ==
    Frac(Mul(TimeSinceArrival(i), Num(VisualizationFrequency))) = Rat(3, 4)

\* C15: once a wave has arrived the evaluator returns a value in [0, 1], and
\* the value is 0 exactly when every arrived wave is at its trough.
C15_PositiveUnlessTrough ==
    (amplitudeCall.called /\ ArrivedElements # {}) =>
        /\ Le(Zero, amplitudeCall.amplitude)
        /\ Le(amplitudeCall.amplitude, Num(1))
        /\ amplitudeCall.amplitude = Zero <=> \A i \in ArrivedElements : AtTrough(i)

C15_Witness ==
    /\ amplitudeCall.called
    /\ ArrivedElements # {}
    /\ amplitudeCall.amplitude = Zero

(***************************************************************************)
(* Properties of the initial frame and of the canvas click (SpecPage).     *)
(***************************************************************************)
\* the frames composed so far that are shown or awaited
ComposedFrames ==
    {initialFrames[i] : i \in 1..Len(initialFrames)} \cup ({canvasFrame} \ {NoFrame})

\* C18: an initial frame composed for a target that fails validation has all
\* its elements built with the linear delay (lineLength - radius) / speed,
\* shows the target with the invalid marker, and is composed without a call
\* of the interference evaluator.
C18_InvalidTargetFallsBackToLinear ==
    \A f \in ComposedFrames :
        (f.target # <<>> /\ ~TargetIsValid(f.target)) =>
            /\ Len(f.elements) = numElementsInput
            /\ \A i \in 1..Len(f.elements) :
                  f.elements[i].delay =
                      Div(Num(DEFAULT_LINE_LENGTH - DEFAULT_ELEMENT_RADIUS),
                          InitialFrameSpeed)
            /\ f.targetDrawn
            /\ f.invalidMarker
            /\ f.evaluations = 0

C18_Witness ==
    /\ clickEvent.clicked
    /\ hasTarget
    /\ ~TargetIsValid(TargetOfInputs)
    /\ canvasFrame.target = TargetOfInputs
    /\ canvasFrame.invalidMarker
    /\ Len(canvasFrame.elements) >= 2

\* the click position in internal canvas coordinates:
\* (clientX - rect.left) * canvas.width / rect.width, and likewise for y
StatedClickTarget ==
    <<Round(Mul(Sub(Num(clickEvent.clientX), rect.left),
                Div(Num(canvas.width), rect.width))),
      Round(Mul(Sub(Num(clickEvent.clientY), rect.top),
                Div(Num(canvas.height), rect.height)))>>

\* C19 as stated: after a click on the canvas the target inputs hold the
\* click position converted to internal canvas coordinates and rounded.
C19_AsStated ==
    clickEvent.clicked =>
        /\ targetXInput = <<StatedClickTarget[1]>>
        /\ targetYInput = <<StatedClickTarget[2]>>

(***************************************************************************)
(* Properties of movie generation and playback (SpecPlayback).             *)
(***************************************************************************)
\* C16 as stated: when generateMovie has returned, frames holds
\* ceil(duration * frameRate) frames, frame i rendered at
\* (i / (totalFrames - 1)) * duration, the first at exactly 0 and the last at
\* exactly duration, and currentFrame was 0 when it returned.
C16_AsStated ==
    (generated.done /\ generations = <<>>) =>
        LET totalFrames == Ceil(Mul(movieDurationInput, Num(APP_FRAME_RATE)))
        IN  /\ generated.totalFrames = totalFrames
            /\ generated.currentFrame = 0
            /\ Len(frames) = totalFrames
            /\ \A i \in 0..(totalFrames - 1) :
                  frames[i + 1].time =
                      Mul(Div(Num(i), Num(totalFrames - 1)), movieDurationInput)
            /\ frames[1].time = Zero
            /\ frames[totalFrames].time = movieDurationInput

\* C17: a timer tick during playback shows the next frame, or, past the last
\* frame, stops the playback (not playing, timer cleared) at frame 0; and
\* every playback that has started ends stopped at frame 0.
C17_PlaybackRunsToTheEnd ==
    /\ [][(\E id \in timers : TimerTick(id)) =>
             IF currentFrame + 1 < Len(frames)
             THEN /\ currentFrame' = currentFrame + 1
                  /\ canvasFrame' = frames[currentFrame + 2]
                  /\ isPlaying' = isPlaying
                  /\ playInterval' = playInterval
             ELSE /\ ~isPlaying'
                  /\ playInterval' = Null
                  /\ timers' = {}
                  /\ currentFrame' = 0]_vars
    /\ isPlaying ~> (~isPlaying /\ playInterval = Null /\ timers = {}
                     /\ currentFrame = 0)

C17_Witness ==
    /\ generated.done
    /\ Len(frames) >= 2
    /\ ~isPlaying
    /\ playInterval = Null
    /\ timers = {}
    /\ currentFrame = 0

(***************************************************************************)
(* A speed of 0, and changes of the configuration while a movie exists.    *)
(***************************************************************************)
Infinity == <<1, 0>>

\* every element of elements has the delay d
AllDelays(elements, d) == \A k \in 1..Len(elements) : elements[k].delay = d

\* C21 (as stated): with the speed input at 0 the linear-mode delay is
\* Infinity, for the elements of a movie and for those of the initial frame.
C21_AsStated ==
    /\ \A g \in 1..Len(generations) :
          (generations[g].visualSpeed = Zero /\ generations[g].targetType = "linear")
              => AllDelays(generations[g].elements, Infinity)
    /\ \A i \in 1..Len(initialFrames) :
          (initialFrames[i].speed = Zero /\ initialFrames[i].targetType = "linear")
              => AllDelays(initialFrames[i].elements, Infinity)

\* C22 (as stated): every frame of a movie is drawn and evaluated with the
\* speed that the delays of the movie's elements were computed with.
C22_AsStated ==
    \A g \in 1..Len(generations) :
        generations[g].bitmap.speed = generations[g].visualSpeed

\* the elements a movie of the current configuration has
ConfiguredElements ==
    MovieElements(Num(numElementsInput), pitchInput, TargetTypeOfInputs,
                  TargetOfInputs)

\* C25 (as stated): a frame that the playback timer shows was computed for
\* the configuration the inputs hold at that time.
C25_AsStated ==
    [][\A id \in timers :
          (TimerTick(id) /\ currentFrame' = currentFrame + 1)
              => canvasFrame'.elements = ConfiguredElements]_vars

(***************************************************************************)
(* The playback buttons at any time.                                       *)
(***************************************************************************)
\* C23 (as stated): at most one interval timer is scheduled, it is the one
\* recorded in playInterval, and playInterval is set exactly while playing.
C23_AsStated ==
    /\ Cardinality(timers) <= 1
    /\ timers = IF playInterval = Null THEN {} ELSE {playInterval}
    /\ (playInterval # Null) <=> isPlaying

\* C24 (as stated): when a generation finishes, the frame buffer holds
\* exactly its totalFrames frames, in increasing order of time.
C24_AsStated ==
    [][\A g \in 1..Len(generations) :
          (GenerationStep(g) /\ generations[g].i + 1 = generations[g].totalFrames)
              => /\ Len(frames') = generations[g].totalFrames
                 /\ \A k \in 1..(Len(frames') - 1) :
                       Lt(frames'[k].time, frames'[k + 1].time)]_vars

\* C26 (as stated): a click on play while the target is invalid leaves
\* frames, currentFrame and isPlaying as they are and starts no generation;
\* every movie generated in point mode has a target that passes validation.
C26_AsStated ==
    /\ [][(PlayPauseClick /\ ~isPlaying /\ hasTarget /\ ~TargetIsValid(TargetOfInputs))
             => (UNCHANGED <<frames, currentFrame, isPlaying, generations>>)]_vars
    /\ [](\A g \in 1..Len(generations) :
             generations[g].targetType = "point"
                 => TargetIsValid(generations[g].target))

(***************************************************************************)
(* Elements are built once and never changed.                              *)
(***************************************************************************)
\* C27: a draw leaves the element as it was; the elements of a generateMovie
\* call stay the same from its first frame to its last, and every frame of
\* the movie, awaited or in the buffer, holds exactly these elements.
C27_ElementsImmutable ==
    /\ [][canvasOps' # canvasOps => element' = element]_vars
    /\ [][\A g \in 1..Len(generations) :
             GenerationStep(g) =>
                 /\ frames'[Len(frames')].elements = generations[g].elements
                 /\ Len(generations') = Len(generations) =>
                        generations'[g].elements = generations[g].elements]_vars
    /\ [](\A g \in 1..Len(generations) :
             /\ generations[g].bitmap.elements = generations[g].elements
             /\ \A k \in 1..Len(frames) :
                   frames[k].elements = generations[g].elements)
    /\ [](\A j, k \in 1..Len(frames) : frames[j].elements = frames[k].elements)

C27_Witness ==
    /\ generated.done
    /\ Len(frames) >= 2
    /\ Len(frames[1].elements) = 2
    /\ frames[1].elements[1].delay # frames[1].elements[2].delay

(***************************************************************************)
(* The playback position.                                                  *)
(***************************************************************************)
\* C28: currentFrame is the index of a frame of the buffer (0 when the
\* buffer is empty) in every state, renderFrame never draws a frame that is
\* not there, and the previous and next buttons move by one step inside
\* the buffer or not at all.
C28_FrameIndexInRange ==
    /\ [](IF frames = <<>> THEN currentFrame = 0
          ELSE currentFrame \in 0..(Len(frames) - 1))
    /\ [][canvasFrame' = NoFrame => canvasFrame = NoFrame]_vars
    /\ [][PrevFrameClick =>
             \/ currentFrame' = currentFrame
             \/ /\ currentFrame' = currentFrame - 1
                /\ canvasFrame' = frames[currentFrame' + 1]]_vars
    /\ [][NextFrameClick =>
             \/ currentFrame' = currentFrame
             \/ /\ currentFrame' = currentFrame + 1
                /\ canvasFrame' = frames[currentFrame' + 1]]_vars

C28_Witness ==
    /\ ~isPlaying
    /\ Len(frames) >= 2
    /\ currentFrame = Len(frames) - 1
    /\ canvasFrame = frames[currentFrame + 1]

C30_FocusedArrival ==
    amplitudeCall.called =>
        IF Lt(amplitudeCall.currentTime, FocusArrival)
        THEN /\ ArrivedElements = {}
             /\ amplitudeCall.amplitude = Zero
        ELSE /\ ArrivedElements = 1..Len(amplitudeCall.elements)
             /\ \A i \in 1..Len(amplitudeCall.elements) :
                   TimeSinceArrival(i) =
                       Sub(amplitudeCall.currentTime, FocusArrival)
             /\ amplitudeCall.amplitude =
                    calculateWaveAmplitudeAtTarget(
                        <<amplitudeCall.elements[1]>>, amplitudeCall.targetX,
                        amplitudeCall.targetY, amplitudeCall.currentTime)

C30_Witness ==
    /\ amplitudeCall.called
    /\ Len(amplitudeCall.elements) >= 2
    /\ amplitudeCall.elements[1].delay # amplitudeCall.elements[2].delay
    /\ amplitudeCall.currentTime = FocusArrival
    /\ Lt(Zero, amplitudeCall.amplitude)

====
